---- MODULE Spec2Model ----
(***************************************************************************)
(* pyocr.libtesseract: the multi-level grouping iterator                   *)
(* (MultiLevelIterator.nested) and the functions that run it inside a      *)
(* tesseract session (image_to_string, test_mli), together with the other  *)
(* session functions (detect_orientation, get_available_languages).        *)
(*                                                                         *)
(* Python lists are objects: to_box holds references into a heap of lists, *)
(* and a boxer that returns the list it was handed returns a reference to  *)
(* that same object.                                                       *)
(***************************************************************************)
EXTENDS Integers, Sequences, FiniteSets, TLC

VARIABLES
    fn,           \* the module function being run
    raw_version,  \* what tesseract_raw.get_version() returns
    levels,       \* the levels handed to MultiLevelIterator (coarsest first)
    boxers,       \* the boxers handed to MultiLevelIterator, one per level
    stream,       \* the recognised page: one entry per base-level element
    pc,           \* position in the running function
    err,          \* the exception in flight, "none" when there is none
    i,            \* nested(): index of the for loop (1-based)
    pos,          \* position of the backend page iterator (1-based)
    to_box,       \* nested(): one list reference per level
    heap,         \* the list objects: heap[r] is the content of list r
    out,          \* what nested() returned: a list reference, 0 before
    boxed,        \* the calls of a group boxer made so far, in order
    log,          \* what nested() has done so far, in order
    inits,        \* handles returned by tesseract_raw.init
    cleanups,     \* calls of tesseract_raw.cleanup(handle)
    res_iterator, \* what tesseract_raw.get_iterator returned, "unset" before
    nextCalls,    \* calls of MultiLevelIterator.next
    predCalls,    \* calls of is_at_beginning / is_at_end
    contentCalls, \* calls of get_contents
    boxerCalls,   \* calls of a boxer
    queries,      \* calls made on the backend iterator
    exhausted,    \* page_iterator_next has returned false
    lateQueries,  \* backend iterator calls made after exhaustion or cleanup
    constructed,  \* MultiLevelIterator.__init__ has completed
    ret           \* outcome of the last direct call on the iterator object

inputs   == <<fn, raw_version, levels, boxers, stream>>
engine   == <<i, pos, to_box, heap, out, boxed, log>>
session  == <<inits, cleanups, res_iterator>>
counters == <<nextCalls, predCalls, contentCalls, boxerCalls, queries,
              exhausted, lateQueries>>
vars     == <<inputs, pc, err, engine, session, counters, constructed, ret>>

----------------------------------------------------------------------------
(* Bounds *)

\* words of the page test_mli reads
MaxLeaves == 6

\* words of the page image_to_string reads, and the length of the list
\* builders.boxers it hands to the iterator
MaxWords == 3
MaxBoxers == 3

\* direct calls a client makes on one iterator object, and the words of
\* the page it makes them on
MaxClientCalls == 3
MaxClientLeaves == 2

----------------------------------------------------------------------------
(* Levels *)

\* clevel_od: level name -> tesseract PageIteratorLevel
clevel_od == [block |-> 0, para |-> 1, line |-> 2, word |-> 3, symbol |-> 4]

Range(s) == {s[k] : k \in DOMAIN s}

\* the level lists a caller hands over; base level "word" wherever the
\* traversal gets as far as stepping the iterator
LevelSpecs ==
    { <<>>,
      <<"word">>,
      <<"line", "word">>,
      <<"para", "line", "word">>,
      <<"word", "word">>,
      <<"line", "glyph">> }

\* level arguments of direct calls on the iterator object
ProbeLevels == {"block", "line", "word", "glyph"}

\* boxers: "first" returns its first argument (lambda l, c, p: l), "tuple"
\* builds a new value from its arguments
BoxerKinds == {"first", "tuple"}

BoxersOf(lv, kind) == [k \in DOMAIN lv |-> kind]

\* builders.boxers: a list of its own, of any length, not made from the
\* builder's levels
BoxerLists == UNION {[1..n -> BoxerKinds] : n \in 0..MaxBoxers}

\* ordered, non-empty, no identifier twice
ValidLevelSpec(lv) ==
    /\ Len(lv) > 0
    /\ \A a, b \in DOMAIN lv : a # b => lv[a] # lv[b]

----------------------------------------------------------------------------
(* The recognised page.  stream[k] is the PageIteratorLevel of the         *)
(* coarsest group that begins on word k: 0 on the first word of the page,  *)
(* 1 = new paragraph, 2 = new line, 3 = just the next word.                *)

StreamsUpTo(m) ==
    UNION { { [k \in 1..n |-> IF k = 1 THEN 0 ELSE t[k - 1]] :
                t \in [1..(n - 1) -> 1..3] } : n \in 0..m }

Streams == StreamsUpTo(MaxLeaves)

\* the six-word page of two lines of three words, the second line
\* beginning a line or a paragraph
ScenarioPages == {<<0, 3, 3, t, 3, 3>> : t \in 1..2}

Pages == StreamsUpTo(MaxWords) \cup ScenarioPages

\* the backend iterator is its position; it stands on a word or on none
OnLeaf(iterator) == iterator \in 1..Len(stream)

----------------------------------------------------------------------------
(* tesseract_raw: the calls made on the backend iterator.  The iterator    *)
(* stands on word pos; with no word under it the text is None (<<>>), the  *)
(* box is empty and the boundary answers are whatever the backend says.    *)

NoText == <<>>

result_iterator_get_utf8_text(iterator, cl) ==
    IF OnLeaf(iterator) THEN <<cl, iterator>> ELSE NoText

page_iterator_bounding_box(iterator, cl) ==
    IF OnLeaf(iterator) THEN <<TRUE, <<iterator, cl, iterator + 1, cl + 1>>>>
    ELSE <<FALSE, <<0, 0, 0, 0>>>>

\* the current word is the first word of a group at level cl
page_iterator_is_at_beginning_of(iterator, cl) ==
    IF OnLeaf(iterator) THEN {stream[iterator] <= cl} ELSE BOOLEAN

\* the current word is the last word of its group at level cl
page_iterator_is_at_final_element(iterator, cl, el) ==
    IF OnLeaf(iterator)
    THEN {iterator = Len(stream) \/ stream[iterator + 1] <= cl}
    ELSE BOOLEAN

\* page_iterator_next: TRUE iff there is a word to move to
page_iterator_next(iterator, cl) == OnLeaf(iterator + 1)

----------------------------------------------------------------------------
(* MultiLevelIterator: the methods, as outcomes of a call in the current   *)
(* state.  An outcome is [err, val, q]: the exception raised ("none" when  *)
(* the call returns), the value returned, and the number of calls made on  *)
(* the backend iterator.                                                   *)

Returns(v, n) == [err |-> "none", val |-> v, q |-> n]
Raises(e)     == [err |-> e, val |-> FALSE, q |-> 0]

base_level == levels[Len(levels)]
base_boxer == boxers[Len(boxers)]

_tess_box_to_pyocr_box(box) == <<<<box[1], box[2]>>, <<box[3], box[4]>>>>

get_contents(level) ==
    IF level \notin DOMAIN clevel_od THEN Raises("KeyError")
    ELSE LET text       == result_iterator_get_utf8_text(pos, clevel_od[level])
             confidence == result_iterator_get_utf8_text(pos, clevel_od[level])
             rbox       == page_iterator_bounding_box(pos, clevel_od[level])
             position   == _tess_box_to_pyocr_box(rbox[2])
         IN  Returns(<<text, confidence, position>>, 3)

\* is_at_beginning without the test of self.levels
is_at_beginning_unchecked(level) ==
    IF level \notin DOMAIN clevel_od THEN {Raises("KeyError")}
    ELSE {Returns(b, 1) : b \in page_iterator_is_at_beginning_of(
                                    pos, clevel_od[level])}

is_at_beginning(level) ==
    IF level \notin Range(levels) THEN {Raises("ValueError")}
    ELSE IF level \notin DOMAIN clevel_od THEN {Raises("KeyError")}
    ELSE {Returns(b, 1) : b \in page_iterator_is_at_beginning_of(
                                    pos, clevel_od[level])}

is_at_end(level, lower_level) ==
    IF level \notin Range(levels) \/ lower_level \notin Range(levels)
    THEN {Raises("ValueError")}
    ELSE IF level \notin DOMAIN clevel_od \/ lower_level \notin DOMAIN clevel_od
    THEN {Raises("KeyError")}
    ELSE {Returns(e, 1) : e \in page_iterator_is_at_final_element(
                                    pos, clevel_od[level], clevel_od[lower_level])}

----------------------------------------------------------------------------
(* Nodes.  A boxer of kind "first" returns its first argument: the text of *)
(* a word, or the very list object it was handed.  A boxer of kind "tuple" *)
(* builds a new value from its three arguments.                            *)

Node(k, t, c, p, r, ch) ==
    [kind |-> k, text |-> t, conf |-> c, box |-> p, ref |-> r, kids |-> ch]

\* boxer(text, confidence, position)
BoxLeaf(boxer, content) ==
    IF boxer = "first"
    THEN Node("leaf", content[1], <<>>, <<>>, 0, <<>>)
    ELSE Node("leaf", content[1], content[2], content[3], 0, <<>>)

\* boxer(children, c, p), children being the list object r of heap h
BoxGroup(boxer, r, c, p, h) ==
    IF boxer = "first"
    THEN Node("list", <<>>, <<>>, <<>>, r, <<>>)
    ELSE Node("group", <<>>, c, p, 0, h[r])

\* the children of a node as seen in heap h
Children(n, h) == IF n.kind = "list" THEN h[n.ref] ELSE n.kids

RECURSIVE WalkSeq(_, _, _)
\* depth-first, left-to-right walk of a sequence of nodes: the words whose
\* text the leaf nodes hold, as positions of the page (a leaf node made
\* with no word under the iterator holds None and adds no content); d
\* bounds the depth
WalkSeq(ns, h, d) ==
    IF ns = <<>> \/ d = 0 THEN <<>>
    ELSE LET n == Head(ns)
             here == IF n.kind = "leaf"
                     THEN (IF n.text = NoText THEN <<>> ELSE <<n.text[2]>>)
                     ELSE WalkSeq(Children(n, h), h, d - 1)
         IN  here \o WalkSeq(Tail(ns), h, d)

----------------------------------------------------------------------------
(* nested(): one pass of the for loop, for level index i on the current    *)
(* word.  bo and eo are the outcomes of is_at_beginning and is_at_end.     *)
(* The result is the exception raised, the new to_box and heap, and the    *)
(* calls made.                                                             *)

StepResult(e, tb, h, np, nc, nb, nq, calls, evs) ==
    [err |-> e, to_box |-> tb, heap |-> h,
     pred |-> np, content |-> nc, boxer |-> nb, q |-> nq, boxed |-> calls,
     log |-> evs]

NoNode == Node("none", <<>>, <<>>, <<>>, 0, <<>>)

\* one thing nested() does for level index k with the iterator at it:
\* "begin" / "end" (is_at_beginning / is_at_end answered v), "contents"
\* (get_contents), "boxer" (a boxer returned n), "append" (n appended to
\* to_box[k]), "next" (self.next() found a word: v)
Event(e, k, it, v, n) == [ev |-> e, level |-> k, at |-> it, val |-> v, node |-> n]

\* a call boxer(children, c, p) for level index k with the iterator at it:
\* the list handed over, what it held then, and the node returned
BoxerCall(k, it, r, c, p, h, n) ==
    [level |-> k, at |-> it, children |-> r, held |-> h[r],
     text |-> c, box |-> p, node |-> n]

\* the reset left out: to_box[i+1] keeps its list
ResetListSkipped(tb, h, k) == [to_box |-> tb, heap |-> h]

\* the list object emptied in place, as del to_box[i+1][:] would
ResetListInPlace(tb, h, k) ==
    [to_box |-> tb, heap |-> [h EXCEPT ![tb[k]] = <<>>]]

\* the reset applied one level too high: to_box[i] = []
ResetListCoarser(tb, h, k) ==
    [to_box |-> [tb EXCEPT ![k - 1] = Len(h) + 1], heap |-> Append(h, <<>>)]

\* to_box[i+1] = []: a new list object
ResetList(tb, h, k) ==
    [to_box |-> [tb EXCEPT ![k] = Len(h) + 1], heap |-> Append(h, <<>>)]

\* the node put at the front of the list, as to_box[k].insert(0, n) would
InsertFirst(tb, h, k, n) == [h EXCEPT ![tb[k]] = <<n>> \o @]

\* to_box[k].append(n)
AppendTo(tb, h, k, n) == [h EXCEPT ![tb[k]] = Append(@, n)]

LevelStep(bo, eo) ==
    LET level == levels[i]
        boxer == boxers[i]
        evBegin == <<Event("begin", i, pos, bo.val, NoNode)>>
        evEnd == <<Event("end", i, pos, eo.val, NoNode)>>
        evContents == <<Event("contents", i, pos, FALSE, NoNode)>>
        evBoxed(n) == <<Event("boxer", i, pos, FALSE, n),
                        Event("append", i, pos, FALSE, n)>>
    IN
    \* boxer = self.boxers[i], with a list shorter than the levels
    IF i \notin DOMAIN boxers
    THEN StepResult("IndexError", to_box, heap, 0, 0, 0, 0, <<>>, <<>>)
    ELSE
    IF level = base_level
    THEN LET c == get_contents(level) IN
         IF c.err # "none"
         THEN StepResult(c.err, to_box, heap, 0, 1, 0, c.q, <<>>, <<>>)
         ELSE LET n == BoxLeaf(boxer, c.val) IN
              StepResult("none", to_box, AppendTo(to_box, heap, i, n),
                         0, 1, 1, c.q, <<>>, evContents \o evBoxed(n))
    ELSE
         IF bo.err # "none"
         THEN StepResult(bo.err, to_box, heap, 1, 0, 0, bo.q, <<>>, <<>>)
         ELSE
         LET r  == IF bo.val THEN ResetList(to_box, heap, i + 1)
                   ELSE [to_box |-> to_box, heap |-> heap]
         IN
         IF eo.err # "none"
         THEN StepResult(eo.err, r.to_box, r.heap, 2, 0, 0, bo.q + eo.q, <<>>,
                         evBegin)
         ELSE IF ~eo.val
         THEN StepResult("none", r.to_box, r.heap, 2, 0, 0, bo.q + eo.q, <<>>,
                         evBegin \o evEnd)
         ELSE
         LET c == get_contents(level) IN
         IF c.err # "none"
         THEN StepResult(c.err, r.to_box, r.heap, 2, 1, 0, bo.q + eo.q + c.q,
                         <<>>, evBegin \o evEnd)
         ELSE
         LET n == BoxGroup(boxer, r.to_box[i + 1], c.val[2], c.val[3], r.heap) IN
         StepResult("none", r.to_box, AppendTo(r.to_box, r.heap, i, n),
                    2, 1, 1, bo.q + eo.q + c.q,
                    <<BoxerCall(i, pos, r.to_box[i + 1], c.val[2], c.val[3],
                                r.heap, n)>>,
                    evBegin \o evEnd \o evContents \o evBoxed(n))

----------------------------------------------------------------------------
(* The functions of the module *)

\* a direct call of a method of the iterator object, and its outcome
Call(op, level, lower_level, o) ==
    [op |-> op, level |-> level, lower |-> lower_level,
     err |-> o.err, val |-> o.val]

NoCall == Call("none", "none", "none", Raises("none"))

Functions ==
    {"image_to_string", "test_mli", "detect_orientation", "get_available_languages"}

RunsEngine == fn \in {"image_to_string", "test_mli"}

Init ==
    /\ fn \in Functions
    /\ raw_version = <<>>
    /\ stream \in (CASE fn = "image_to_string" -> Pages
                     [] fn = "test_mli"        -> Streams
                     [] OTHER                  -> {<<>>})
    /\ levels \in (CASE fn = "image_to_string" -> LevelSpecs
                     [] fn = "test_mli"        -> {<<"line", "word">>}
                     [] OTHER                  -> {<<>>})
    /\ boxers \in (CASE fn = "image_to_string" -> BoxerLists
                     [] OTHER -> {BoxersOf(levels, "first")})
    /\ pc = "start"
    /\ err = "none"
    /\ i = 0
    /\ pos = 1
    /\ to_box = <<>>
    /\ heap = <<>>
    /\ out = 0
    /\ boxed = <<>>
    /\ log = <<>>
    /\ inits = 0
    /\ cleanups = 0
    /\ res_iterator = "unset"
    /\ nextCalls = 0
    /\ predCalls = 0
    /\ contentCalls = 0
    /\ boxerCalls = 0
    /\ queries = 0
    /\ exhausted = FALSE
    /\ lateQueries = 0
    /\ constructed = FALSE
    /\ ret = NoCall

\* an exception that leaves the function without the finally clause
UnwindPastFinally(e) ==
    /\ pc' = "raised"
    /\ err' = e

\* an exception inside the try block: the finally clause runs next
Unwind(e) ==
    /\ pc' = "finally"
    /\ err' = e

\* the statement after the one at p, by function
After(p) ==
    CASE p = "init" ->
           IF fn = "get_available_languages" THEN "get_available_languages"
           ELSE "set_page_seg_mode"
      [] p = "set_page_seg_mode" -> "set_image"
      [] p = "set_image" ->
           IF fn = "detect_orientation" THEN "detect_os" ELSE "recognize"
      [] p = "recognize" -> "get_iterator"
      [] p = "get_iterator" -> "construct"
      [] OTHER -> "finally"

\* handle = tesseract_raw.init(...), before the try block
TessInit ==
    /\ pc = "start"
    /\ \E ok \in BOOLEAN :
         IF ok
         THEN /\ inits' = inits + 1
              /\ pc' = After("init")
              /\ err' = err
         ELSE /\ inits' = inits
              /\ pc' = "raised"
              /\ err' = "TesseractError"
    /\ UNCHANGED <<inputs, engine, cleanups, res_iterator, counters,
                   constructed, ret>>

\* a backend call on the handle that returns nothing of interest
HandleCall(p) ==
    /\ pc = p
    /\ \E ok \in BOOLEAN :
         IF ok THEN pc' = After(p) /\ err' = err
         ELSE Unwind("TesseractError")
    /\ UNCHANGED <<inputs, engine, session, counters, constructed, ret>>

SetPageSegMode == HandleCall("set_page_seg_mode")
SetImage       == HandleCall("set_image")
Recognize      == HandleCall("recognize")

\* get_iterator with no test of its result: None goes on to the iterator
GetIteratorUnchecked ==
    /\ pc = "get_iterator"
    /\ \E res \in {"iterator", "failure"} \cup
                  (IF stream = <<>> THEN {"None"} ELSE {}) :
         CASE res = "failure" ->
                  Unwind("TesseractError") /\ res_iterator' = res_iterator
           [] OTHER ->
                  pc' = After("get_iterator") /\ err' = err /\ res_iterator' = res
    /\ UNCHANGED <<inputs, engine, inits, cleanups, counters, constructed, ret>>

\* res_iterator = get_iterator(handle): None only for a page with no word;
\* image_to_string raises "no script" on None, test_mli goes on
GetIterator ==
    /\ pc = "get_iterator"
    /\ \E res \in {"iterator", "failure"} \cup
                  (IF stream = <<>> THEN {"None"} ELSE {}) :
         CASE res = "failure" ->
                  Unwind("TesseractError") /\ res_iterator' = res_iterator
           [] res = "None" /\ fn = "image_to_string" ->
                  Unwind("no script") /\ res_iterator' = res
           [] OTHER ->
                  pc' = After("get_iterator") /\ err' = err /\ res_iterator' = res
    /\ UNCHANGED <<inputs, engine, inits, cleanups, counters, constructed, ret>>

\* detect_orientation: detect_os and what follows it
DetectOs ==
    /\ pc = "detect_os"
    /\ \E res \in {"failure", "no confidence", "unknown orientation", "ok"} :
         CASE res = "failure"             -> Unwind("TesseractError")
           [] res = "no confidence"       -> Unwind("no script")
           [] res = "unknown orientation" -> Unwind("KeyError")
           [] OTHER                       -> pc' = "finally" /\ err' = err
    /\ UNCHANGED <<inputs, engine, session, counters, constructed, ret>>

GetLanguages == HandleCall("get_available_languages")

\* MultiLevelIterator.__init__
Construct ==
    /\ pc = "construct"
    /\ IF levels = <<>> \/ boxers = <<>>
       THEN Unwind("IndexError") /\ constructed' = constructed
       ELSE pc' = "nested" /\ err' = err /\ constructed' = TRUE
    /\ UNCHANGED <<inputs, engine, session, counters, ret>>

\* nested(): to_box = [list() for l in self.levels]
NestedEnter ==
    /\ pc = "nested"
    /\ to_box' = [k \in DOMAIN levels |-> k]
    /\ heap' = [k \in DOMAIN levels |-> <<>>]
    /\ i' = 1
    /\ pc' = "level"
    /\ UNCHANGED <<inputs, err, pos, out, boxed, log, session, counters,
                   constructed, ret>>

Late(n) == IF exhausted \/ cleanups > 0 THEN n ELSE 0

\* nested(): the body of the for loop for one level
NestedLevel ==
    /\ pc = "level"
    /\ \E bo \in is_at_beginning(levels[i]) :
       \E eo \in (IF i < Len(levels) THEN is_at_end(levels[i], levels[i + 1])
                  ELSE {Raises("none")}) :
         LET r == LevelStep(bo, eo) IN
         /\ to_box' = r.to_box
         /\ heap' = r.heap
         /\ boxed' = boxed \o r.boxed
         /\ log' = log \o r.log
         /\ predCalls' = predCalls + r.pred
         /\ contentCalls' = contentCalls + r.content
         /\ boxerCalls' = boxerCalls + r.boxer
         /\ queries' = queries + r.q
         /\ lateQueries' = lateQueries + Late(r.q)
         /\ IF r.err # "none"
            THEN Unwind(r.err) /\ i' = i
            ELSE /\ err' = err
                 /\ IF i < Len(levels)
                    THEN i' = i + 1 /\ pc' = "level"
                    ELSE i' = i /\ pc' = "next"
    /\ UNCHANGED <<inputs, pos, out, session, nextCalls, exhausted,
                   constructed, ret>>

\* nested(): self.next(), and the break on StopIteration
NestedNext ==
    /\ pc = "next"
    /\ nextCalls' = nextCalls + 1
    /\ IF base_level \notin DOMAIN clevel_od
       THEN /\ Unwind("KeyError")
            /\ UNCHANGED <<pos, i, log, queries, lateQueries, exhausted>>
       ELSE /\ queries' = queries + 1
            /\ lateQueries' = lateQueries + Late(1)
            /\ pos' = pos + 1
            /\ err' = err
            /\ log' = Append(log, Event("next", Len(levels), pos,
                         page_iterator_next(pos, clevel_od[base_level]), NoNode))
            /\ IF page_iterator_next(pos, clevel_od[base_level])
               THEN pc' = "level" /\ i' = 1 /\ exhausted' = exhausted
               ELSE pc' = "return" /\ i' = i /\ exhausted' = TRUE
    /\ UNCHANGED <<inputs, to_box, heap, out, boxed, session, predCalls,
                   contentCalls, boxerCalls, constructed, ret>>

\* the function returning what nested() returned with no finally clause run
NestedReturnNoCleanup ==
    /\ pc = "return"
    /\ out' = to_box[1]
    /\ pc' = "returned"
    /\ UNCHANGED <<inputs, err, i, pos, to_box, heap, boxed, log, session,
                   counters, constructed, ret>>

\* nested(): return to_box[0]
NestedReturn ==
    /\ pc = "return"
    /\ out' = to_box[1]
    /\ pc' = "finally"
    /\ UNCHANGED <<inputs, err, i, pos, to_box, heap, boxed, log, session,
                   counters, constructed, ret>>

\* finally: tesseract_raw.cleanup(handle); then the return, or the
\* exception goes on to the caller
Finally ==
    /\ pc = "finally"
    /\ cleanups' = cleanups + 1
    /\ pc' = IF err = "none" THEN "returned" ELSE "raised"
    /\ UNCHANGED <<inputs, err, engine, inits, res_iterator, counters,
                   constructed, ret>>

Next ==
    \/ TessInit
    \/ SetPageSegMode
    \/ SetImage
    \/ Recognize
    \/ GetIterator
    \/ DetectOs
    \/ GetLanguages
    \/ Construct
    \/ NestedEnter
    \/ NestedLevel
    \/ NestedNext
    \/ NestedReturn
    \/ Finally

Spec == Init /\ [][Next]_vars

----------------------------------------------------------------------------
(* A client holding a constructed MultiLevelIterator and calling its       *)
(* methods directly, with any level name as argument.                      *)

InitCursor ==
    /\ fn = "client"
    /\ raw_version = <<>>
    /\ stream \in StreamsUpTo(MaxClientLeaves)
    /\ levels \in LevelSpecs \ {<<>>}
    /\ boxers = BoxersOf(levels, "first")
    /\ pc = "idle"
    /\ err = "none"
    /\ i = 0
    /\ pos = 1
    /\ to_box = <<>>
    /\ heap = <<>>
    /\ out = 0
    /\ boxed = <<>>
    /\ log = <<>>
    /\ inits = 0
    /\ cleanups = 0
    /\ res_iterator = "unset"
    /\ nextCalls = 0
    /\ predCalls = 0
    /\ contentCalls = 0
    /\ boxerCalls = 0
    /\ queries = 0
    /\ exhausted = FALSE
    /\ lateQueries = 0
    /\ constructed = TRUE
    /\ ret = NoCall

ClientCalls == nextCalls + predCalls + contentCalls

\* mli.is_at_beginning(level)
ClientIsAtBeginning ==
    /\ pc = "idle" /\ ClientCalls < MaxClientCalls
    /\ \E level \in ProbeLevels : \E o \in is_at_beginning(level) :
         /\ ret' = Call("is_at_beginning", level, "none", o)
         /\ queries' = queries + o.q
         /\ lateQueries' = lateQueries + Late(o.q)
    /\ predCalls' = predCalls + 1
    /\ UNCHANGED <<inputs, pc, err, engine, session, nextCalls, contentCalls,
                   boxerCalls, exhausted, constructed>>

\* mli.is_at_end(level, lower_level)
ClientIsAtEnd ==
    /\ pc = "idle" /\ ClientCalls < MaxClientCalls
    /\ \E level, lower_level \in ProbeLevels :
       \E o \in is_at_end(level, lower_level) :
         /\ ret' = Call("is_at_end", level, lower_level, o)
         /\ queries' = queries + o.q
         /\ lateQueries' = lateQueries + Late(o.q)
    /\ predCalls' = predCalls + 1
    /\ UNCHANGED <<inputs, pc, err, engine, session, nextCalls, contentCalls,
                   boxerCalls, exhausted, constructed>>

\* mli.get_contents(level)
ClientGetContents ==
    /\ pc = "idle" /\ ClientCalls < MaxClientCalls
    /\ \E level \in ProbeLevels :
         LET o == get_contents(level) IN
         /\ ret' = Call("get_contents", level, "none", o)
         /\ queries' = queries + o.q
         /\ lateQueries' = lateQueries + Late(o.q)
    /\ contentCalls' = contentCalls + 1
    /\ UNCHANGED <<inputs, pc, err, engine, session, nextCalls, predCalls,
                   boxerCalls, exhausted, constructed>>

\* mli.next()
ClientNext ==
    /\ pc = "idle" /\ ClientCalls < MaxClientCalls
    /\ nextCalls' = nextCalls + 1
    /\ IF base_level \notin DOMAIN clevel_od
       THEN /\ ret' = Call("next", "none", "none", Raises("KeyError"))
            /\ UNCHANGED <<pos, queries, lateQueries, exhausted>>
       ELSE /\ queries' = queries + 1
            /\ lateQueries' = lateQueries + Late(1)
            /\ pos' = pos + 1
            /\ IF page_iterator_next(pos, clevel_od[base_level])
               THEN /\ ret' = Call("next", "none", "none", Returns(FALSE, 1))
                    /\ exhausted' = exhausted
               ELSE /\ ret' = Call("next", "none", "none",
                                   Raises("StopIteration"))
                    /\ exhausted' = TRUE
    /\ UNCHANGED <<inputs, pc, err, i, to_box, heap, out, boxed, log, session,
                   predCalls, contentCalls, boxerCalls, constructed>>

NextCursor ==
    \/ ClientIsAtBeginning
    \/ ClientIsAtEnd
    \/ ClientGetContents
    \/ ClientNext

SpecCursor == InitCursor /\ [][NextCursor]_vars

----------------------------------------------------------------------------
(* What a run of nested() is judged against *)

\* nested() has returned its result
NestedReturned == out # 0

\* the nodes of the returned sequence, and the words a depth-first walk of
\* the returned tree meets
Result == heap[out]
ResultWalk == WalkSeq(Result, heap, Len(levels) + 1)

\* the words of the page in the order the iterator visits them
Visited == [k \in 1..Len(stream) |-> k]

\* first word of the group at PageIteratorLevel cl that word k belongs to
GroupStart(k, cl) ==
    CHOOSE s \in 1..k :
        /\ stream[s] <= cl
        /\ \A t \in (s + 1)..k : stream[t] > cl

\* the number of words from the first word of the group closed by boxer
\* call b up to the word the call was made on
GroupLeaves(b) ==
    b.at - GroupStart(b.at, clevel_od[levels[b.level]]) + 1

RECURSIVE NodesOf(_, _, _)
\* every node of the tree under the sequence ns
NodesOf(ns, h, d) ==
    IF d = 0 THEN {}
    ELSE UNION { {ns[k]} \cup NodesOf(Children(ns[k], h), h, d - 1) :
                 k \in DOMAIN ns }

\* what get_contents(level) returns with the iterator on word k
ContentsAt(k, level) ==
    <<result_iterator_get_utf8_text(k, clevel_od[level]),
      result_iterator_get_utf8_text(k, clevel_od[level]),
      _tess_box_to_pyocr_box(page_iterator_bounding_box(k, clevel_od[level])[2])>>

----------------------------------------------------------------------------
(* Claims *)

\* C1 (order preservation): once nested() has returned for a valid level
\* list, the depth-first, left-to-right walk of the returned tree yields
\* the contents of exactly the words the iterator visited, in visit order:
\* none missing, none twice, none out of place.
OrderPreservation ==
    (NestedReturned /\ ValidLevelSpec(levels)) => ResultWalk = Visited

\* C2 (group closure): once nested() has returned for a valid level list,
\* every group node of the returned tree that was made on a word has as
\* many children as there are words from the first word of its group to
\* that word, the one that ended it.
GroupClosure ==
    (NestedReturned /\ ValidLevelSpec(levels)) =>
        \A k \in DOMAIN boxed :
            (OnLeaf(boxed[k].at)
               /\ boxed[k].node \in NodesOf(Result, heap, Len(levels))) =>
                Len(Children(boxed[k].node, heap)) = GroupLeaves(boxed[k])

\* the node the boxer of the base level makes of word k
WordNode(k) == BoxLeaf(boxers[Len(levels)], ContentsAt(k, base_level))

\* six words; a line begins exactly on words 1 and 4 (so one ends exactly
\* on words 3 and 6)
TwoLineStream ==
    /\ Len(stream) = 6
    /\ {k \in 1..6 : TRUE \in page_iterator_is_at_beginning_of(k, clevel_od["line"])}
         = {1, 4}
    /\ {k \in 1..6 : TRUE \in page_iterator_is_at_final_element(
                                 k, clevel_od["line"], clevel_od["word"])}
         = {3, 6}

\* C3 (two-line scenario): with the levels line and word on the six-word,
\* two-line page, nested() returns exactly two line nodes, the first
\* holding the nodes of words 1, 2, 3 and the second those of words 4, 5,
\* 6, in that order.
TwoLineScenario ==
    (NestedReturned /\ levels = <<"line", "word">> /\ TwoLineStream) =>
        /\ Len(Result) = 2
        /\ Children(Result[1], heap) = <<WordNode(1), WordNode(2), WordNode(3)>>
        /\ Children(Result[2], heap) = <<WordNode(4), WordNode(5), WordNode(6)>>

\* C4 (single-level law): with exactly one level, nested() returns one
\* node per word of the page, boxer[base] of that word's contents, in
\* visit order, and never calls is_at_beginning or is_at_end.
SingleLevelLaw ==
    (NestedReturned /\ Len(levels) = 1) =>
        /\ Result = [k \in 1..Len(stream) |-> WordNode(k)]
        /\ predCalls = 0

\* C5 (empty-stream law): for a valid level list, nested() on a page with
\* no word returns the empty sequence.
EmptyStreamLaw ==
    (NestedReturned /\ ValidLevelSpec(levels) /\ stream = <<>>) =>
        Result = <<>>

\* C6 (single pass): when nested() has returned, next() was called exactly
\* once per word of the page, and no call was made on the backend iterator
\* after next() reported exhaustion.
SinglePass ==
    NestedReturned =>
        /\ nextCalls = Len(stream)
        /\ lateQueries = 0

\* C7 (scoped release): cleanup is never called more often than init
\* returned a handle, and when the function has returned or raised, every
\* handle init returned has been passed to cleanup exactly once.
ScopedRelease ==
    /\ cleanups <= inits
    /\ pc \in {"returned", "raised"} => cleanups = inits

\* an error raised while nested() drove the cursor, after which the
\* function has raised with its handle released
ReleasedAfterNestedError ==
    /\ pc = "raised"
    /\ fn = "image_to_string"
    /\ err = "KeyError"
    /\ queries > 0
    /\ inits = 1 /\ cleanups = 1

\* the statements of the session functions up to and including the
\* construction of the MultiLevelIterator
BeforeTraversal ==
    {"start", "set_page_seg_mode", "set_image", "recognize", "get_iterator",
     "construct"}

\* C8 (level list validation): a MultiLevelIterator handed an empty level
\* list or one with a repeated level is never constructed: construction
\* fails (IndexError standing for EmptyLevelSpec), before any call on the
\* cursor and any boxer call.
LevelSpecValidation ==
    (RunsEngine /\ ~ValidLevelSpec(levels) /\ pc \notin BeforeTraversal
       /\ err \notin {"TesseractError", "no script"}) =>
        /\ ~constructed
        /\ err = "IndexError"
        /\ queries = 0 /\ boxerCalls = 0

\* C9 (boundary predicates reject undeclared levels): a call of
\* is_at_beginning with an undeclared level, or of is_at_end with an
\* undeclared level or lower level, raises ValueError, makes no call on the
\* backend iterator and leaves the cursor where it was.
UndeclaredLevelRejected ==
    [][ ( /\ predCalls' = predCalls + 1
          /\ \/ ret'.level \notin Range(levels)
             \/ ret'.op = "is_at_end" /\ ret'.lower \notin Range(levels) )
        => ( /\ ret'.err = "ValueError"
             /\ queries' = queries
             /\ pos' = pos ) ]_vars

\* is_at_end has been called with a level of the tesseract vocabulary that
\* the level list does not declare, and has raised
UndeclaredLevelProbed ==
    /\ ret.op = "is_at_end"
    /\ ret.level \in Range(levels)
    /\ ret.lower \in DOMAIN clevel_od /\ ret.lower \notin Range(levels)
    /\ ret.err = "ValueError"
    /\ pos > 1

\* C10 (get_contents rejects undeclared levels): a call of get_contents
\* with a level the level list does not declare fails (any exception is
\* taken for InvalidLevel).
ContentsRejectsUndeclared ==
    (ret.op = "get_contents" /\ ret.level \notin Range(levels)) =>
        ret.err # "none"

\* the boundary checks nested() has made, in the order it made them
BoundaryChecks == SelectSeq(log, LAMBDA e : e.ev \in {"begin", "end"})

RECURSIVE OneChildChain(_, _, _)
\* ns holds exactly one node, and so does every group node under it for d
\* levels down, the innermost being the node of word 1
OneChildChain(ns, h, d) ==
    /\ Len(ns) = 1
    /\ IF d <= 1 THEN ns[1] = WordNode(1)
       ELSE /\ ns[1].kind # "leaf"
            /\ OneChildChain(Children(ns[1], h), h, d - 1)

\* C11 (tie-break scenario): on a page of one word, which begins and ends
\* a group at every coarser level, nested() checks the non-base levels
\* coarsest to finest, for each level the start before the end; the
\* returned tree has one node at the coarsest level and every group node
\* down the chain has exactly one child, the innermost the node of the word.
TieBreakScenario ==
    (NestedReturned /\ ValidLevelSpec(levels) /\ Len(stream) = 1) =>
        /\ Len(BoundaryChecks) = 2 * (Len(levels) - 1)
        /\ \A k \in 1..(Len(levels) - 1) :
             /\ BoundaryChecks[2 * k - 1].ev = "begin"
             /\ BoundaryChecks[2 * k - 1].level = k
             /\ BoundaryChecks[2 * k].ev = "end"
             /\ BoundaryChecks[2 * k].level = k
        /\ OneChildChain(Result, heap, Len(levels))

\* C12 (no content is surfaced before the engine runs): once get_iterator
\* has returned None in image_to_string, the function is raising
\* TesseractError "no script"; no MultiLevelIterator was constructed, no
\* cursor operation and no boxer call was made, and nothing is returned.
NoContentSurfaced ==
    (fn = "image_to_string" /\ res_iterator = "None") =>
        /\ err = "no script"
        /\ pc \in {"finally", "raised"}
        /\ ~constructed
        /\ queries = 0 /\ nextCalls = 0 /\ predCalls = 0 /\ contentCalls = 0
        /\ boxerCalls = 0
        /\ out = 0

NoScriptRaised ==
    /\ fn = "image_to_string"
    /\ res_iterator = "None"
    /\ pc = "raised"
    /\ err = "no script"
    /\ cleanups = 1

\* the word on which is_at_beginning last answered true for level index k
\* (0 when it has not yet)
LastStart(k) ==
    LET at == {e \in DOMAIN log :
                 log[e].ev = "begin" /\ log[e].level = k /\ log[e].val}
    IN  IF at = {} THEN 0
        ELSE log[CHOOSE e \in at : \A f \in at : f <= e].at

\* the nodes appended at level index k on the words from word p on, in the
\* order they were appended
AppendedSince(k, p) ==
    LET evs == SelectSeq(log, LAMBDA e :
                   e.ev = "append" /\ e.level = k /\ e.at >= p)
    IN  [j \in DOMAIN evs |-> evs[j].node]

\* C13 (accumulator invariant): at every point of a run of nested(), for
\* every level below the coarsest, to_box of that level holds exactly the
\* nodes made at that level since the most recent word on which
\* is_at_beginning answered true for its parent level (since the start
\* when it never did), in visit order.
AccumulatorInvariant ==
    to_box # <<>> =>
        \A k \in 2..Len(levels) :
            heap[to_box[k]] = AppendedSince(k, LastStart(k - 1))

\* a second line has begun and holds its first word
AccumulatorRestarted ==
    /\ pc = "next"
    /\ Len(levels) = 3
    /\ pos > 2
    /\ LastStart(2) = pos
    /\ LastStart(1) = 1
    /\ Len(heap[to_box[3]]) = 1
    /\ Len(heap[to_box[2]]) > 0

\* C14 (leaf before flush): whenever a group boxer is called on a word,
\* the child list handed to it already ends with the node of the next finer
\* level made on that same word, the base node of the word having been
\* appended before any boundary check was made on it.
LeafBeforeFlush ==
    \A k \in DOMAIN boxed :
        (OnLeaf(boxed[k].at) /\ Len(boxers) >= Len(levels)) =>
            /\ boxed[k].held # <<>>
            /\ \E e \in DOMAIN log :
                 /\ log[e].ev = "append"
                 /\ log[e].level = boxed[k].level + 1
                 /\ log[e].at = boxed[k].at
                 /\ log[e].node = boxed[k].held[Len(boxed[k].held)]
            /\ \A c \in DOMAIN log :
                 (log[c].ev \in {"begin", "end"} /\ log[c].at = boxed[k].at) =>
                    \E e \in 1..(c - 1) :
                        /\ log[e].ev = "append"
                        /\ log[e].level = Len(levels)
                        /\ log[e].at = boxed[k].at

\* C15 (group boxer arguments): in every pass of the loop body for a
\* non-base level that completes, if is_at_end answered true the level's
\* boxer is called exactly once, with the accumulator of the next finer
\* level and the text and the box of get_contents(level), and what it
\* returns is appended as it is to the accumulator of the level; if
\* is_at_end answered false no boxer is called and the accumulator of the
\* level is left as it was.
GroupBoxerArguments ==
    [][ (pc = "level" /\ levels[i] # base_level /\ pc' = "level") =>
          LET flushed == log'[Len(log')].ev # "end"
              b     == boxed'[Len(boxed')]
          IN  IF flushed
              THEN /\ log'[Len(log') - 3] = Event("end", i, pos, TRUE, NoNode)
                   /\ boxerCalls' = boxerCalls + 1
                   /\ Len(boxed') = Len(boxed) + 1
                   /\ b.children = to_box'[i + 1]
                   /\ b.text = ContentsAt(pos, levels[i])[1]
                   /\ b.box = ContentsAt(pos, levels[i])[3]
                   /\ heap'[to_box'[i]] = Append(heap[to_box[i]], b.node)
              ELSE /\ log'[Len(log')] = Event("end", i, pos, FALSE, NoNode)
                   /\ boxerCalls' = boxerCalls
                   /\ boxed' = boxed
                   /\ heap'[to_box'[i]] = heap[to_box[i]] ]_vars

\* a second group has been boxed into the coarsest accumulator, after
\* words on which is_at_end answered false
SecondGroupBoxed ==
    /\ pc = "level"
    /\ i = 2
    /\ boxed # <<>>
    /\ Len(heap[to_box[1]]) = 2
    /\ OnLeaf(pos)
    /\ boxed[Len(boxed)].at = pos
    /\ boxed[Len(boxed)].text = ContentsAt(pos, levels[1])[1]
    /\ \E e \in DOMAIN log : log[e].ev = "end" /\ ~log[e].val

\* C16 (no boxer on an empty cursor): when nested() has returned on a
\* cursor that had no word under it from the start, no boxer was called and
\* get_contents was not called.
NoBoxerOnEmptyCursor ==
    (NestedReturned /\ stream = <<>>) =>
        /\ boxerCalls = 0
        /\ contentCalls = 0

\* ---------------------------------------------------------------------
\* Version probing: get_version() and is_available().  A string is the
\* sequence of the code points of its characters.

MaxVersionDigits == 2

\* the characters from the space to the underscore (code points 32 to
\* 95), and from a to the tilde (97 to 126), in code point order
Printable ==
    <<
      " ", "!", "\"", "#", "$", "%", "&", "'", "(", ")", "*", "+", ",",
      "-", ".", "/", "0", "1", "2", "3", "4", "5", "6", "7", "8", "9",
      ":", ";", "<", "=", ">", "?", "@", "A", "B", "C", "D", "E", "F",
      "G", "H", "I", "J", "K", "L", "M", "N", "O", "P", "Q", "R", "S",
      "T", "U", "V", "W", "X", "Y", "Z", "[", "\\", "]", "^", "_"
    >>

Lower ==
    <<
      "a", "b", "c", "d", "e", "f", "g", "h", "i", "j", "k", "l", "m",
      "n", "o", "p", "q", "r", "s", "t", "u", "v", "w", "x", "y", "z",
      "{", "|", "}", "~"
    >>

\* ord(c) for a printable ASCII character
ord(c) ==
    IF \E k \in DOMAIN Printable : Printable[k] = c
    THEN 31 + (CHOOSE k \in DOMAIN Printable : Printable[k] = c)
    ELSE 96 + (CHOOSE k \in DOMAIN Lower : Lower[k] = c)

\* the string written as a tuple of printable ASCII characters
Str(s) == [k \in DOMAIN s |-> ord(s[k])]

\* str.find(sub): the lowest 0-based index where sub occurs, -1 if none
find(s, sub) ==
    LET hits == {k \in 0..(Len(s) - Len(sub)) :
                   SubSeq(s, k + 1, k + Len(sub)) = sub}
    IN  IF hits = {} THEN -1
        ELSE CHOOSE k \in hits : \A h \in hits : k <= h

\* s[:index], with Python's reading of a negative or too large index
slice_to(s, index) ==
    LET stop == IF index < 0
                THEN (IF Len(s) + index < 0 THEN 0 ELSE Len(s) + index)
                ELSE (IF index > Len(s) THEN Len(s) ELSE index)
    IN  SubSeq(s, 1, stop)

\* s.split(sep, 1)[0] for a one-character sep
split_first(s, sep) ==
    LET k == find(s, <<sep>>)
    IN  IF k = -1 THEN s ELSE SubSeq(s, 1, k)

\* s.split(sep) for a one-character sep
RECURSIVE split(_, _)
split(s, sep) ==
    LET k == find(s, <<sep>>)
    IN  IF k = -1 THEN <<s>>
        ELSE <<SubSeq(s, 1, k)>> \o split(SubSeq(s, k + 2, Len(s)), sep)

\* the characters int() strips from both ends of its argument: the ASCII
\* ones \t \n \v \f \r and the space, and the Unicode spaces above them
Whitespace ==
    (9..13) \cup {32, 133, 160, 5760} \cup (8192..8202)
        \cup {8232, 8233, 8239, 8287, 12288}

RECURSIVE lstrip(_)
lstrip(s) ==
    IF s # <<>> /\ Head(s) \in Whitespace THEN lstrip(Tail(s)) ELSE s

RECURSIVE rstrip(_)
rstrip(s) ==
    IF s # <<>> /\ s[Len(s)] \in Whitespace
    THEN rstrip(SubSeq(s, 1, Len(s) - 1)) ELSE s

strip(s) == rstrip(lstrip(s))

\* the argument of int() without the sign it may begin with
unsigned(s) ==
    LET t == strip(s)
    IN  IF t # <<>> /\ Head(t) \in {ord("+"), ord("-")} THEN Tail(t) ELSE t

\* the decimal digits of Unicode come in runs of ten, zero to nine: the
\* code points of the zeros (48 is the ASCII one)
DecimalZeros ==
    {
     48, 1632, 1776, 1984, 2406, 2534, 2662, 2790, 2918, 3046, 3174,
     3302, 3430, 3558, 3664, 3792, 3872, 4160, 4240, 6112, 6160, 6470,
     6608, 6784, 6800, 6992, 7088, 7232, 7248, 42528, 43216, 43264,
     43472, 43504, 43600, 44016, 65296, 66720, 68912, 69734, 69872,
     69942, 70096, 70384, 70736, 70864, 71248, 71360, 71472, 71904,
     72016, 72784, 73040, 73120, 92768, 92864, 93008, 120782, 120792,
     120802, 120812, 120822, 123200, 123632, 125264, 130032
    }

is_decimal(c) == \E z \in DecimalZeros : c \in z..(z + 9)

\* the digit a decimal character stands for
decimal(c) == c - (CHOOSE z \in DecimalZeros : c \in z..(z + 9))

\* the longest run of digits int() converts (sys.get_int_max_str_digits(),
\* as the interpreter starts)
int_max_str_digits == 4300

\* int(s) is defined when s, stripped of whitespace around it and of one
\* sign before it, is decimal digits with single underscores between them,
\* no more digits than the interpreter converts; ValueError otherwise
is_int(s) ==
    LET d == unsigned(s)
    IN  /\ d # <<>>
        /\ \A k \in DOMAIN d : is_decimal(d[k]) \/ d[k] = ord("_")
        /\ d[1] # ord("_") /\ d[Len(d)] # ord("_")
        /\ \A k \in 1..(Len(d) - 1) :
              ~(d[k] = ord("_") /\ d[k + 1] = ord("_"))
        /\ Cardinality({k \in DOMAIN d : d[k] # ord("_")})
              <= int_max_str_digits

\* the value of a string of digits and underscores
RECURSIVE digits_value(_)
digits_value(d) ==
    IF d = <<>> THEN 0
    ELSE IF d[Len(d)] = ord("_")
         THEN digits_value(SubSeq(d, 1, Len(d) - 1))
    ELSE 10 * digits_value(SubSeq(d, 1, Len(d) - 1)) + decimal(d[Len(d)])

int(s) ==
    LET t == strip(s)
    IN  IF t # <<>> /\ Head(t) = ord("-")
        THEN 0 - digits_value(unsigned(s))
        ELSE digits_value(unsigned(s))

\* "if index:" read as "if the dev string exists"
dev_found(index) == index # -1

\* "if index:" as Python evaluates it: any integer but 0 is true
truthy(index) == index # 0

\* get_version() on the string tesseract_raw.get_version() returned
get_version(raw) ==
    LET token   == split_first(raw, ord(" "))
        index   == find(token, Str(<<"d", "e", "v">>))
        cut     == IF truthy(index) THEN slice_to(token, index) ELSE token
        version == split(cut, ord("."))
    IN  IF ~is_int(version[1]) THEN Raises("ValueError")
        ELSE IF Len(version) < 2 THEN Raises("IndexError")
        ELSE IF ~is_int(version[2]) THEN Raises("ValueError")
        ELSE IF Len(version) >= 3 /\ ~is_int(version[3])
             THEN Raises("ValueError")
        ELSE Returns(<<int(version[1]), int(version[2]),
                       IF Len(version) >= 3 THEN int(version[3]) ELSE 0>>, 0)

\* is_available() given what tesseract_raw.is_available() answered
is_available(available, raw) ==
    IF ~available THEN Returns(FALSE, 0)
    ELSE LET version == get_version(raw)
         IN  IF version.err # "none" THEN version
             ELSE IF \/ version.val[1] < 3
                     \/ (version.val[1] = 3 /\ version.val[2] < 4)
                  THEN Returns(FALSE, 0)
             ELSE Returns(TRUE, 0)

\* digit strings of 1..n characters
DigitStrings(n) ==
    UNION {[1..m -> {ord("0"), ord("1"), ord("4")}] : m \in 1..n}

Join(a, b) == a \o <<ord(".")>> \o b

\* raw version strings: M.m or M.m.u, then nothing or a suffix that starts
\* with dev, then nothing or a second space-delimited word
VersionStrings ==
    LET majors   == {Str(<<"2">>), Str(<<"3">>), Str(<<"4">>)}
        minors   == DigitStrings(MaxVersionDigits)
        two      == {Join(M, m) : M \in majors, m \in minors}
        three    == {Join(t, u) : t \in two, u \in minors}
        suffixes == {<<>>, Str(<<"d", "e", "v">>), Str(<<"d", "e", "v", "1">>)}
        tails    == {<<>>, Str(<<" ", "d", "e", "v">>)}
    IN  {t \o x \o y : t \in two \cup three, x \in suffixes, y \in tails}

\* other strings the backend may hand over: signed, with an underscore,
\* with whitespace around a component (a tab, a vertical tab, a no-break
\* space), with digits of another script (Arabic-Indic, fullwidth), with
\* one component, or none
OtherVersionStrings ==
    {Str(<<"+", "3", ".", "4", "0">>), Str(<<"-", "3", ".", "4", "0">>),
     Str(<<"3", ".", "+", "4", "0">>), Str(<<"3", ".", "4", "_", "0", "0">>),
     <<9>> \o Str(<<"3", ".", "4", "0">>),
     <<11>> \o Str(<<"3", ".", "4", "0">>),
     Str(<<"3">>) \o <<160>> \o Str(<<".", "4", "0">>),
     <<1635>> \o Str(<<".", "4", "0">>),
     Str(<<"3", ".">>) \o <<65300, 65296>>,
     Str(<<"3">>), Str(<<"3", "4">>), Str(<<"d", "e", "v">>), <<>>}

\* the numbers a version string stands for: its first word, without the
\* dev suffix when there is one, read as dot-separated decimals
VersionOf(raw) ==
    LET token   == split_first(raw, ord(" "))
        index   == find(token, Str(<<"d", "e", "v">>))
        cut     == IF dev_found(index) THEN slice_to(token, index) ELSE token
        version == split(cut, ord("."))
    IN  <<int(version[1]), int(version[2]),
          IF Len(version) >= 3 THEN int(version[3]) ELSE 0>>

InitVersion ==
    /\ fn \in {"get_version", "is_available"}
    /\ raw_version \in VersionStrings \cup OtherVersionStrings
    /\ stream = <<>>
    /\ levels = <<>>
    /\ boxers = <<>>
    /\ pc = "start"
    /\ err = "none"
    /\ i = 0
    /\ pos = 1
    /\ to_box = <<>>
    /\ heap = <<>>
    /\ out = 0
    /\ boxed = <<>>
    /\ log = <<>>
    /\ inits = 0
    /\ cleanups = 0
    /\ res_iterator = "unset"
    /\ nextCalls = 0
    /\ predCalls = 0
    /\ contentCalls = 0
    /\ boxerCalls = 0
    /\ queries = 0
    /\ exhausted = FALSE
    /\ lateQueries = 0
    /\ constructed = FALSE
    /\ ret = NoCall

\* a module-level function that returns o or raises o.err
Outcome(op, o) ==
    /\ ret' = Call(op, "none", "none", o)
    /\ err' = o.err
    /\ pc' = IF o.err = "none" THEN "returned" ELSE "raised"
    /\ UNCHANGED <<inputs, engine, session, counters, constructed>>

GetVersion ==
    /\ fn = "get_version"
    /\ pc = "start"
    /\ Outcome("get_version", get_version(raw_version))

IsAvailable ==
    /\ fn = "is_available"
    /\ pc = "start"
    /\ \E available \in BOOLEAN :
         Outcome("is_available", is_available(available, raw_version))

NextVersion ==
    \/ GetVersion
    \/ IsAvailable

SpecVersion == InitVersion /\ [][NextVersion]_vars

\* C17 (version parsing): get_version() on a version string M.m or M.m.u,
\* with or without a dev suffix, returns (M, m, u), u = 0 when absent, and
\* raises nothing.
VersionParsing ==
    (fn = "get_version" /\ pc # "start" /\ raw_version \in VersionStrings) =>
        /\ pc = "returned"
        /\ ret.err = "none"
        /\ ret.val = VersionOf(raw_version)

\* C18 (completed groups are frozen): once nested() has gone past the word
\* on which a group was boxed, no step changes the children of that group's
\* node: the list the boxer was handed is not the one that collects the
\* next group.
CompletedGroupsFrozen ==
    [][ \A k \in DOMAIN boxed :
          boxed[k].at < pos =>
              Children(boxed[k].node, heap') = Children(boxed[k].node, heap)
      ]_vars

\* two groups boxed on different words by a boxer that returns the list it
\* was handed, each keeping its own words in the result
TwoGroupsKept ==
    /\ pc = "returned" /\ NestedReturned
    /\ \E a, b \in DOMAIN boxed :
         /\ boxed[a].level = 1 /\ boxed[b].level = 1
         /\ boxed[a].at < boxed[b].at
         /\ boxed[a].node.kind = "list" /\ boxed[b].node.kind = "list"
         /\ boxed[a].node.ref # boxed[b].node.ref
         /\ Children(boxed[a].node, heap) # <<>>
         /\ Children(boxed[b].node, heap) # <<>>
         /\ Children(boxed[a].node, heap) # Children(boxed[b].node, heap)

\* the words so far on which is_at_end(levels[0], levels[1]) answered true
RootEnds(l) ==
    {e \in DOMAIN l : l[e].ev = "end" /\ l[e].level = 1 /\ l[e].val}

\* C19 (root accumulator is append-only): in a run of nested() over more
\* than one level, to_box[0] stays the list it was bound to at the start,
\* a step leaves it as it was or appends one node to it, the latter exactly
\* when the step is the pass for the coarsest level on a word on which
\* is_at_end answered true; so its length is always the number of words on
\* which is_at_end(levels[0], levels[1]) answered true.
RootAppendOnly ==
    [][ (to_box # <<>> /\ Len(levels) > 1 /\ levels[1] # base_level) =>
          LET root  == heap[to_box[1]]
              root2 == heap'[to_box'[1]]
              ended == /\ pc = "level" /\ i = 1
                       /\ RootEnds(log') # RootEnds(log)
          IN  /\ to_box'[1] = 1 /\ to_box[1] = 1
              /\ SubSeq(root2, 1, Len(root)) = root
              /\ Len(root2) = IF ended THEN Len(root) + 1 ELSE Len(root)
              /\ Len(root2) = Cardinality(RootEnds(log'))
              /\ \A e, f \in RootEnds(log') : log'[e].at = log'[f].at => e = f
      ]_vars

\* a returned sequence of two nodes, from a page that also has a word on
\* which is_at_end answered false for the coarsest level
RootGrewTwice ==
    /\ pc = "returned" /\ NestedReturned
    /\ Len(levels) > 1 /\ levels[1] # base_level
    /\ out = 1
    /\ Len(Result) = 2
    /\ Cardinality(RootEnds(log)) = 2
    /\ \E e \in DOMAIN log :
         log[e].ev = "end" /\ log[e].level = 1 /\ ~log[e].val

\* C20 (no use after release): in image_to_string and test_mli every call
\* on the backend iterator is made with the handle initialised, the
\* iterator obtained and cleanup not yet called; and the function returns
\* only with cleanup called, the step that returns making no call on the
\* iterator.
NoUseAfterRelease ==
    [][ RunsEngine =>
          /\ queries' # queries =>
                /\ inits = 1 /\ inits' = 1
                /\ res_iterator # "unset" /\ res_iterator' = res_iterator
                /\ cleanups = 0 /\ cleanups' = 0
                /\ pc \notin BeforeTraversal
          /\ cleanups > 0 => queries' = queries
          /\ pc' = "returned" =>
                /\ cleanups' = 1
                /\ queries' = queries
      ]_vars

\* test_mli has returned the lines of a page of several words, its handle
\* released after the last call on the iterator
TestMliReturnedReleased ==
    /\ fn = "test_mli"
    /\ pc = "returned" /\ NestedReturned
    /\ inits = 1 /\ cleanups = 1
    /\ res_iterator = "iterator"
    /\ nextCalls >= 2
    /\ queries > nextCalls
    /\ lateQueries = 0

====
